---- MODULE Spec2Model ----
(***************************************************************************)
(* The binary-constraint solver of sudoku_csp/csp.py: the CSP class        *)
(* (construction, ac_3 / revise, backtracking_search / is_consistent /     *)
(* select_unassigned_variable) and the alldiff edge generator.             *)
(*                                                                         *)
(* One CSP instance is constructed in Init from (variables, domains,       *)
(* edges); afterwards the caller may call ac_3() and backtracking_search() *)
(* any number of times.  ac_3 advances one iteration of its while loop per *)
(* step, backtracking_search one step of backtrack() per step.             *)
(***************************************************************************)
EXTENDS Integers, Sequences, FiniteSets, TLC

\* ------------------------------------------------------------------------
\* Bounds of the checked universe
\* ------------------------------------------------------------------------

\* the variable names instances are built from, in list order
AllVariables == <<"X", "Y", "Z">>

\* the values domains are built from
Values == {1, 2}

\* longest edge list handed to the constructor
MaxEdges == 2

\* names handed to alldiff, and the longest list of them
AlldiffNames == {"A", "B", "C", "D", "E", "F"}

MaxAlldiffLen == 4

VARIABLES
    variables,           \* self.variables : list[str]
    domains,             \* self.domains : dict[str, set]
    binary_constraints,  \* self.binary_constraints, a dict in insertion order
    pc,                  \* where the caller is: "idle", inside ac_3, inside backtrack
    queue,               \* ac_3's local Queue
    ac3_result,          \* what ac_3() returned: "True", "False"; "None" when it was not the last call
    assignment,          \* the dict backtrack() works on
    stack,               \* the activation records of backtrack()
    result,              \* the value last returned by a backtrack() call
    search_result,       \* what backtracking_search() returned, when it was the last call
    call,                \* the method called last: "none", "ac_3", "backtracking_search"
    repeated,            \* that call is an ac_3() made right after an ac_3() returned
    domains_at_call,     \* self.domains when the current (or last) call was made
    constructed,         \* variables, domains, binary_constraints as __init__ left them
    owed,                \* the keys (Z, X) whose X lost a value in this ac_3() and that
                         \* have not been revised since
    alldiff_in,          \* argument and return value of the last alldiff() call
    alldiff_out

vars == <<variables, domains, binary_constraints, pc, queue, ac3_result, assignment,
          stack, result, search_result, call, repeated, domains_at_call,
          constructed, owed, alldiff_in, alldiff_out>>

csp_state == <<variables, domains, binary_constraints>>
ac3_locals == <<queue>>
search_locals == <<assignment, stack, result>>
alldiff_vars == <<alldiff_in, alldiff_out>>
history == <<call, repeated, domains_at_call, constructed>>

\* ------------------------------------------------------------------------
\* Python values
\* ------------------------------------------------------------------------

\* the empty dict {}
EmptyDict == [v \in {} |-> 0]

\* a value returned by backtrack(): None or a dict
None == [isNone |-> TRUE, dict |-> EmptyDict]

Dict(a) == [isNone |-> FALSE, dict |-> a]

\* Python truthiness of a returned value: None and {} are falsy
Truthy(r) == ~r.isNone /\ DOMAIN r.dict # {}

\* len(assignment)
DictLen(a) == Cardinality(DOMAIN a)

\* the elements of a list
Range(s) == {s[i] : i \in 1..Len(s)}

\* ------------------------------------------------------------------------
\* CSP.__init__
\* ------------------------------------------------------------------------

\* the set built for one edge: every pair of different values of the two domains,
\* added in both orientations
EdgePairs(doms, edge) ==
    LET differing == {p \in doms[edge[1]] \X doms[edge[2]] : p[1] # p[2]}
    IN differing \cup {<<p[2], p[1]>> : p \in differing}

\* the edges without repetitions, in order of first occurrence (dict key order)
RECURSIVE DictKeys(_)
DictKeys(edges) ==
    IF edges = <<>> THEN <<>>
    ELSE LET front == DictKeys(SubSeq(edges, 1, Len(edges) - 1))
             last == edges[Len(edges)]
         IN IF last \in Range(front) THEN front ELSE Append(front, last)

\* self.binary_constraints after the constructor's loop: one entry per key
Construct(doms, edges) ==
    LET keys == DictKeys(edges)
    IN [i \in 1..Len(keys) |-> [key |-> keys[i], pairs |-> EdgePairs(doms, keys[i])]]

\* the keys of self.binary_constraints, in iteration order and as a set
KeySeq(bc) == [i \in 1..Len(bc) |-> bc[i].key]

Keys(bc) == {bc[i].key : i \in 1..Len(bc)}

\* self.binary_constraints[edge]
Allowed(bc, edge) == bc[CHOOSE i \in 1..Len(bc) : bc[i].key = edge].pairs

\* ------------------------------------------------------------------------
\* CSP.revise and the body of CSP.ac_3's while loop
\* ------------------------------------------------------------------------

\* revise keeping only the values compatible with every y of the other domain
revise_forall(bc, doms, edge) ==
    IF edge \in Keys(bc)
    THEN [doms EXCEPT ![edge[1]] =
             {x \in @ : \A y \in doms[edge[2]] : <<x, y>> \in Allowed(bc, edge)}]
    ELSE doms

\* revise rebuilding the domain from the values the constraint's pairs support
revise_rebuild(bc, doms, edge) ==
    IF edge \in Keys(bc)
    THEN [doms EXCEPT ![edge[1]] =
             {x \in Values : \E y \in doms[edge[2]] : <<x, y>> \in Allowed(bc, edge)}]
    ELSE doms

\* self.domains after revise(edge): every x of domains[edge[0]] without a y in
\* domains[edge[1]] such that (x, y) is allowed is removed; an edge that is no
\* key changes nothing
revise(bc, doms, edge) ==
    IF edge \in Keys(bc)
    THEN [doms EXCEPT ![edge[1]] =
             {x \in @ : \E y \in doms[edge[2]] : <<x, y>> \in Allowed(bc, edge)}]
    ELSE doms

\* Xk of the re-enqueue loop: the end of `constraint` that is not edge[0]
Xk(constraint, edge) ==
    IF constraint[2] = edge[1] THEN constraint[1] ELSE constraint[2]

\* what the for loop after a successful revision puts on the queue, in order
requeued(bc, edge) ==
    LET touching == SelectSeq(KeySeq(bc),
                        LAMBDA c : c # edge /\ (c[1] = edge[1] \/ c[2] = edge[1]))
    IN [i \in 1..Len(touching) |-> <<Xk(touching[i], edge), edge[2]>>]

\* the emptiness test written `< 0`
domain_exhausted_never(doms, edge) == Cardinality(doms[edge[1]]) < 0

\* the emptiness test `len(self.domains[edge[0]]) <= 0`
domain_exhausted(doms, edge) == Cardinality(doms[edge[1]]) <= 0

\* one iteration of `while not queue.empty()`: the next domains and queue, and
\* whether ac_3 returned False in it
ac_3_iteration(bc, doms, q) ==
    LET edge == Head(q)
        revised_doms == revise(bc, doms, edge)
        revised == revised_doms # doms
    IN IF revised /\ domain_exhausted(revised_doms, edge)
       THEN [domains |-> revised_doms, queue |-> Tail(q), returned |-> TRUE]
       ELSE IF revised
       THEN [domains |-> revised_doms, queue |-> Tail(q) \o requeued(bc, edge),
             returned |-> FALSE]
       ELSE [domains |-> doms, queue |-> Tail(q), returned |-> FALSE]

\* the keys awaiting a new revision after one iteration of the while loop: the key
\* taken from the queue is revised now; when its revision removed a value from
\* domains[edge[0]] and left it non-empty, every other key whose second element
\* is edge[0] awaits one
owed_after(bc, doms, q, waiting) ==
    LET edge == Head(q)
        revised_doms == revise(bc, doms, edge)
        rest == waiting \ {edge}
    IN IF revised_doms # doms /\ revised_doms[edge[1]] # {}
       THEN rest \cup {k \in Keys(bc) : k[2] = edge[1] /\ k # edge}
       ELSE rest

\* a whole ac_3() run from a given queue: the returned boolean and final domains
RECURSIVE ac_3_run(_, _, _)
ac_3_run(bc, doms, q) ==
    IF q = <<>> THEN [returns |-> "True", domains |-> doms]
    ELSE LET it == ac_3_iteration(bc, doms, q)
         IN IF it.returned THEN [returns |-> "False", domains |-> it.domains]
            ELSE ac_3_run(bc, it.domains, it.queue)

\* ------------------------------------------------------------------------
\* CSP.is_consistent, CSP.select_unassigned_variable, alldiff
\* ------------------------------------------------------------------------

\* is_consistent returning after the first key it looks at
is_consistent_first_key(bc, a) ==
    \A i \in 1..Len(bc) :
        LET edge == bc[i].key
        IN (i = 1 /\ edge[1] \in DOMAIN a /\ edge[2] \in DOMAIN a)
               => <<a[edge[1]], a[edge[2]]>> \in bc[i].pairs

\* is_consistent with the membership test inverted (`in` for `not in`)
is_consistent_inverted(bc, a) ==
    \A i \in 1..Len(bc) :
        LET edge == bc[i].key
        IN (edge[1] \in DOMAIN a /\ edge[2] \in DOMAIN a)
               => <<a[edge[1]], a[edge[2]]>> \notin bc[i].pairs

\* no key with both ends assigned has its assigned pair outside its set
is_consistent(bc, a) ==
    \A i \in 1..Len(bc) :
        LET edge == bc[i].key
        IN (edge[1] \in DOMAIN a /\ edge[2] \in DOMAIN a)
               => <<a[edge[1]], a[edge[2]]>> \in bc[i].pairs

\* select_unassigned_variable returning the first variable whatever is assigned
select_first_variable(vs, a) == vs[1]

\* the first variable of the list that is no key of the assignment
select_unassigned_variable(vs, a) ==
    vs[CHOOSE i \in 1..Len(vs) :
           vs[i] \notin DOMAIN a /\ \A j \in 1..(i - 1) : vs[j] \in DOMAIN a]

\* assignment[var] = value
Assign(a, var, value) ==
    [v \in DOMAIN a \cup {var} |-> IF v = var THEN value ELSE a[v]]

\* del assignment[var]
Delete(a, var) == [v \in DOMAIN a \ {var} |-> a[v]]

\* the inner loop starting at j = i
alldiff_row_from_i(vs, i) == [k \in 1..(Len(vs) - i + 1) |-> <<vs[i], vs[i + k - 1]>>]

\* the inner `for j in range(i + 1, len(variables))` for one i (1-based here)
alldiff_row(vs, i) == [k \in 1..(Len(vs) - i) |-> <<vs[i], vs[i + k]>>]

\* the comprehension's rows for i = 1 .. upto, appended in order
RECURSIVE alldiff_rows(_, _)
alldiff_rows(vs, upto) ==
    IF upto <= 0 THEN <<>>
    ELSE alldiff_rows(vs, upto - 1) \o alldiff_row(vs, upto)

\* alldiff(variables): i ranges over range(len(variables) - 1)
alldiff(vs) == alldiff_rows(vs, Len(vs) - 1)

\* ------------------------------------------------------------------------
\* Construction
\* ------------------------------------------------------------------------

\* lists of unique variable names: the prefixes of AllVariables
VariableLists == {SubSeq(AllVariables, 1, n) : n \in 0..Len(AllVariables)}

\* edge lists over the given variables: ordered pairs of distinct variables
EdgeLists(vs) ==
    LET pairs == {e \in Range(vs) \X Range(vs) : e[1] # e[2]}
    IN UNION {[1..k -> pairs] : k \in 0..MaxEdges}

\* lists of pairwise distinct names handed to alldiff
AlldiffInputs ==
    {s \in UNION {[1..k -> AlldiffNames] : k \in 0..MaxAlldiffLen} :
        \A i, j \in 1..Len(s) : i # j => s[i] # s[j]}

\* the locals of both engines before any call
NoCall ==
    /\ pc = "idle"
    /\ queue = <<>>
    /\ ac3_result = "None"
    /\ assignment = EmptyDict
    /\ stack = <<>>
    /\ result = None
    /\ search_result = None
    /\ call = "none"
    /\ repeated = FALSE
    /\ owed = {}

\* CSP(variables, domains, edges)
Init ==
    /\ variables \in VariableLists
    /\ domains \in [Range(variables) -> SUBSET Values]
    /\ \E edges \in EdgeLists(variables) :
           binary_constraints = Construct(domains, edges)
    /\ constructed = [variables |-> variables, domains |-> domains,
                      binary_constraints |-> binary_constraints]
    /\ domains_at_call = domains
    /\ NoCall
    /\ alldiff_in = <<>>
    /\ alldiff_out = <<>>

\* a call is made: nothing has been returned by it yet
NoneReturned ==
    /\ ac3_result' = "None"
    /\ search_result' = None

\* a call returns to the caller
Returned == pc' = "idle"

\* ------------------------------------------------------------------------
\* CSP.ac_3
\* ------------------------------------------------------------------------

\* ac_3() is called: every key is put on a new queue
ac_3_call ==
    /\ pc = "idle"
    /\ pc' = "ac_3"
    /\ queue' = KeySeq(binary_constraints)
    /\ domains_at_call' = domains
    /\ call' = "ac_3"
    /\ repeated' = (call = "ac_3")
    /\ owed' = {}
    /\ NoneReturned
    /\ UNCHANGED <<csp_state, search_locals, constructed, alldiff_vars>>

\* one pass of the while loop: get, revise, then return False or re-enqueue
ac_3_step ==
    /\ pc = "ac_3"
    /\ queue # <<>>
    /\ owed' = owed_after(binary_constraints, domains, queue, owed)
    /\ LET it == ac_3_iteration(binary_constraints, domains, queue)
       IN /\ domains' = it.domains
          /\ IF it.returned
             THEN /\ queue' = <<>>
                  /\ ac3_result' = "False"
                  /\ Returned
             ELSE /\ queue' = it.queue
                  /\ UNCHANGED <<ac3_result, pc>>
    /\ UNCHANGED <<variables, binary_constraints, search_locals, search_result,
                   history, alldiff_vars>>

\* the queue is empty: return True
ac_3_return ==
    /\ pc = "ac_3"
    /\ queue = <<>>
    /\ ac3_result' = "True"
    /\ Returned
    /\ UNCHANGED <<csp_state, queue, search_locals, search_result, history, owed,
                   alldiff_vars>>

\* ------------------------------------------------------------------------
\* CSP.backtracking_search and its inner backtrack
\* ------------------------------------------------------------------------

\* the activation record of a backtrack(assignment) call: the selected variable,
\* the values its for loop has been through, the value being tried, and
\* len(assignment) when the call was entered
Frame(a) == [var |-> "", tried |-> {}, value |-> 0, entered |-> DictLen(a)]

Top == stack[Len(stack)]

SetTop(f) == [stack EXCEPT ![Len(stack)] = f]

Pop == SubSeq(stack, 1, Len(stack) - 1)

\* backtrack returns r: to the backtrack call that made it, or, from the outermost
\* call, out of backtracking_search
backtrack_return(r) ==
    /\ stack' = Pop
    /\ IF Len(stack) = 1
       THEN /\ search_result' = r
            /\ result' = None
            /\ assignment' = EmptyDict
            /\ Returned
       ELSE /\ pc' = "returned"
            /\ result' = r
            /\ UNCHANGED <<search_result, assignment>>

\* backtracking_search() is called: backtrack({})
backtracking_search_call ==
    /\ pc = "idle"
    /\ pc' = "enter"
    /\ assignment' = EmptyDict
    /\ stack' = <<Frame(EmptyDict)>>
    /\ domains_at_call' = domains
    /\ call' = "backtracking_search"
    /\ repeated' = FALSE
    /\ owed' = {}
    /\ result' = None
    /\ NoneReturned
    /\ UNCHANGED <<csp_state, ac3_locals, constructed, alldiff_vars>>

\* a backtrack call starts: a complete assignment is returned, otherwise the
\* variable is selected
backtrack_enter ==
    /\ pc = "enter"
    /\ IF DictLen(assignment) >= Len(variables)
       THEN backtrack_return(Dict(assignment))
       ELSE /\ stack' = SetTop([Top EXCEPT
                          !.var = select_unassigned_variable(variables, assignment)])
            /\ pc' = "loop"
            /\ UNCHANGED <<assignment, result, search_result>>
    /\ UNCHANGED <<csp_state, ac3_locals, ac3_result, history, owed, alldiff_vars>>

\* the for loop takes the next value of the domain (a set: in any order), assigns
\* it, and either recurses or deletes it again
backtrack_try ==
    /\ pc = "loop"
    /\ \E value \in domains[Top.var] \ Top.tried :
           LET extended == Assign(assignment, Top.var, value)
           IN IF is_consistent(binary_constraints, extended)
              THEN /\ assignment' = extended
                   /\ stack' = Append(SetTop([Top EXCEPT !.value = value]),
                                      Frame(extended))
                   /\ pc' = "enter"
              ELSE /\ assignment' = Delete(extended, Top.var)
                   /\ stack' = SetTop([Top EXCEPT !.tried = @ \cup {value}])
                   /\ pc' = "loop"
    /\ UNCHANGED <<csp_state, ac3_locals, ac3_result, result, search_result, history, owed,
                   alldiff_vars>>

\* the recursive call came back: a truthy result is returned at once, otherwise
\* the value is deleted and the loop goes on
backtrack_resume ==
    /\ pc = "returned"
    /\ IF Truthy(result)
       THEN backtrack_return(result)
       ELSE /\ assignment' = Delete(assignment, Top.var)
            /\ stack' = SetTop([Top EXCEPT !.tried = @ \cup {Top.value}])
            /\ pc' = "loop"
            /\ UNCHANGED <<result, search_result>>
    /\ UNCHANGED <<csp_state, ac3_locals, ac3_result, history, owed, alldiff_vars>>

\* the for loop is over: return None
backtrack_exhausted ==
    /\ pc = "loop"
    /\ domains[Top.var] \ Top.tried = {}
    /\ backtrack_return(None)
    /\ UNCHANGED <<csp_state, ac3_locals, ac3_result, history, owed, alldiff_vars>>

\* ------------------------------------------------------------------------
\* Specifications
\* ------------------------------------------------------------------------

ac_3_running == ac_3_step \/ ac_3_return

backtrack_running ==
    backtrack_enter \/ backtrack_try \/ backtrack_resume \/ backtrack_exhausted

Next ==
    \/ ac_3_call
    \/ ac_3_step
    \/ ac_3_return
    \/ backtracking_search_call
    \/ backtrack_enter
    \/ backtrack_try
    \/ backtrack_resume
    \/ backtrack_exhausted

Spec == Init /\ [][Next]_vars

\* the code is sequential: a call that has been made keeps executing
FairSpec == Spec /\ WF_vars(ac_3_running) /\ WF_vars(backtrack_running)

\* alldiff on its own: a pure function of its argument
AlldiffInit ==
    /\ variables = <<>>
    /\ domains = EmptyDict
    /\ binary_constraints = <<>>
    /\ constructed = [variables |-> variables, domains |-> domains,
                      binary_constraints |-> binary_constraints]
    /\ domains_at_call = domains
    /\ NoCall
    /\ alldiff_in = <<>>
    /\ alldiff_out = <<>>

alldiff_call ==
    /\ \E vs \in AlldiffInputs :
           /\ alldiff_in' = vs
           /\ alldiff_out' = alldiff(vs)
    /\ UNCHANGED <<csp_state, pc, queue, ac3_result, search_locals, search_result,
                   history, owed>>

AlldiffNext == alldiff_call

AlldiffSpec == AlldiffInit /\ [][AlldiffNext]_vars

\* ------------------------------------------------------------------------
\* Notions the properties are stated in
\* ------------------------------------------------------------------------

VariableSet == Range(variables)

\* a complete assignment drawn from the given domains that satisfies every
\* stored constraint
IsSolution(a, doms) ==
    /\ DOMAIN a = VariableSet
    /\ \A v \in VariableSet : a[v] \in doms[v]
    /\ \A i \in 1..Len(binary_constraints) :
           LET edge == binary_constraints[i].key
           IN <<a[edge[1]], a[edge[2]]>> \in binary_constraints[i].pairs

Solutions(doms) == {a \in [VariableSet -> Values] : IsSolution(a, doms)}

\* every value left in domains[X] has a partner in domains[Y], for every key (X, Y)
ArcConsistent ==
    \A i \in 1..Len(binary_constraints) :
        LET edge == binary_constraints[i].key
        IN \A x \in domains[edge[1]] :
               \E y \in domains[edge[2]] : <<x, y>> \in binary_constraints[i].pairs

AllNonEmpty(doms) == \A v \in DOMAIN doms : doms[v] # {}

Ac3Returned == pc = "idle" /\ call = "ac_3"

SearchReturned == pc = "idle" /\ call = "backtracking_search"

\* the same entries of binary_constraints in every order
Reorderings(bc) ==
    {[i \in 1..Len(bc) |-> bc[p[i]]] : p \in Permutations(1..Len(bc))}

\* ------------------------------------------------------------------------
\* Properties
\* ------------------------------------------------------------------------

\* C1: if ac_3() returns True then, for every stored key (X, Y), every value left
\* in domains[X] has a value y in domains[Y] with (x, y) in the key's set.
C1_Soundness == (Ac3Returned /\ ac3_result = "True") => ArcConsistent

\* C2: an assignment returned by backtracking_search() maps every variable to a
\* value of its current domain and satisfies every stored constraint.
C2_SolutionValidity ==
    (SearchReturned /\ ~search_result.isNone) => IsSolution(search_result.dict, domains)

C2_Witness ==
    /\ SearchReturned
    /\ ~search_result.isNone
    /\ Len(variables) = 3
    /\ Len(binary_constraints) >= 2

\* C3: backtracking_search() returns None exactly when no complete assignment
\* drawn from the current domains satisfies every stored constraint, and what it
\* returns otherwise is a complete assignment.
C3_Completeness ==
    SearchReturned =>
        /\ search_result.isNone <=> Solutions(domains) = {}
        /\ ~search_result.isNone => DOMAIN search_result.dict = VariableSet

C3_Witness ==
    /\ SearchReturned
    /\ search_result.isNone
    /\ Len(variables) = 3
    /\ AllNonEmpty(domains)

\* C4: ac_3 never removes a value used by a solution: every solution over the
\* domains as they were at the call (and at construction) is still drawn from the
\* current domains; so a False result means there is no solution, and a search
\* that returns None after any ac_3 calls means the constructed instance had none.
C4_PreservesSolutions ==
    /\ \A a \in Solutions(domains_at_call) : IsSolution(a, domains)
    /\ \A a \in Solutions(constructed.domains) : IsSolution(a, domains)
    /\ (Ac3Returned /\ ac3_result = "False") => Solutions(domains_at_call) = {}
    /\ (SearchReturned /\ search_result.isNone) => Solutions(constructed.domains) = {}

C4_Witness ==
    /\ pc = "ac_3"
    /\ domains # domains_at_call
    /\ Solutions(domains_at_call) # {}

\* C5: the second of two ac_3() calls in succession removes no value: the domains
\* after it equal the domains after the first.  Stated for second calls made with
\* every domain non-empty, so that the first call returned True (a call that
\* returned False stopped at the first empty domain, with arcs left unrevised).
C5_Idempotence ==
    (Ac3Returned /\ repeated /\ AllNonEmpty(domains_at_call))
        => domains = domains_at_call

\* C6: with the same edges listed in any other order, ac_3() returns the same
\* boolean and leaves the same final domains.  Stated for the boolean, and for
\* the final domains of the runs that return True.
C6_OrderIndependence ==
    Ac3Returned =>
        \A bc \in Reorderings(binary_constraints) :
            LET other == ac_3_run(bc, domains_at_call, KeySeq(bc))
            IN /\ other.returns = ac3_result
               /\ ac3_result = "True" => other.domains = domains

\* C7: called with every domain non-empty, ac_3() returns False exactly when some
\* domain is empty as it returns and True exactly when none is; the step whose
\* revision empties a domain is the step that returns False, and a False return
\* is made by such a step.
C7_ResultAtReturn ==
    (Ac3Returned /\ AllNonEmpty(domains_at_call)) =>
        /\ ac3_result = "False" <=> ~AllNonEmpty(domains)
        /\ ac3_result = "True" <=> AllNonEmpty(domains)

C7_EmptyingStep ==
    (pc = "ac_3" /\ AllNonEmpty(domains_at_call)) =>
        /\ ~AllNonEmpty(domains') => (pc' = "idle" /\ ac3_result' = "False")
        /\ ac3_result' = "False" => (AllNonEmpty(domains) /\ ~AllNonEmpty(domains'))

C7_Result == [](C7_ResultAtReturn) /\ [][C7_EmptyingStep]_vars

C7_Witness ==
    /\ Ac3Returned
    /\ AllNonEmpty(domains_at_call)
    /\ ac3_result = "False"
    /\ Len(binary_constraints) >= 2

\* C8: binary_constraints and variables stay as constructed; no step adds a value
\* to a domain; only a step of ac_3 changes a domain; backtracking_search leaves
\* the domains as it found them.
C8_Unchanged ==
    /\ variables = constructed.variables
    /\ binary_constraints = constructed.binary_constraints
    /\ DOMAIN domains = DOMAIN constructed.domains
    /\ SearchReturned => domains = domains_at_call

C8_Step ==
    /\ \A v \in DOMAIN domains : domains'[v] \subseteq domains[v]
    /\ domains' # domains => pc = "ac_3"

C8_Frame == [](C8_Unchanged) /\ [][C8_Step]_vars

C8_Witness ==
    /\ SearchReturned
    /\ domains # constructed.domains

\* C9: every ac_3() and backtracking_search() call returns; every backtrack call
\* is entered with a larger assignment than its caller, so there are never more
\* than len(variables) + 1 activations, at most len(variables) of them recursive.
C9_Depth ==
    /\ \A i \in 1..Len(stack) : \A j \in 1..Len(stack) :
           i < j => stack[i].entered < stack[j].entered
    /\ \A i \in 1..Len(stack) : stack[i].entered <= Len(variables)
    /\ Len(stack) <= Len(variables) + 1

C9_Termination == [](C9_Depth) /\ (pc # "idle" ~> pc = "idle")

C9_Witness ==
    /\ Len(variables) = 3
    /\ Len(stack) = Len(variables) + 1

\* C10: for N pairwise distinct variables alldiff returns N*(N-1)/2 edges; every
\* pair of positions i < j gives exactly one edge (variables[i], variables[j]),
\* the reversed edge never occurs, and no edge joins a variable to itself.
C10_Alldiff ==
    LET n == Len(alldiff_in)
    IN /\ 2 * Len(alldiff_out) = n * (n - 1)
       /\ \A i \in 1..n : \A j \in 1..n :
              i < j =>
                /\ Cardinality({k \in 1..Len(alldiff_out) :
                                   alldiff_out[k] = <<alldiff_in[i], alldiff_in[j]>>}) = 1
                /\ \A k \in 1..Len(alldiff_out) :
                       alldiff_out[k] # <<alldiff_in[j], alldiff_in[i]>>
       /\ \A k \in 1..Len(alldiff_out) : alldiff_out[k][1] # alldiff_out[k][2]

C10_Witness == Len(alldiff_in) = 4 /\ Len(alldiff_out) = 6

\* C11: when a revision of (X, Y) in ac_3() removes a value from domains[X] and
\* leaves it non-empty, every other stored key (Z, X) is put on the worklist, and
\* is revised again before ac_3() returns True: while ac_3 runs, every key that
\* awaits a new revision is on the queue, and none awaits one when True is returned.
C11_Reenqueue ==
    /\ pc = "ac_3" => owed \subseteq Range(queue)
    /\ (Ac3Returned /\ ac3_result = "True") => owed = {}

====
